---- MODULE Spec2Model ----
(***************************************************************************)
(* LightLog: the Logger facade (src/src/lightlog/pylightlog.py) and the    *)
(* log_prints decorator (src/src/lightlog/decorator.py).                   *)
(*                                                                         *)
(* A Logger keeps a line buffer, a recorded configuration and the stdout   *)
(* target it saw at construction; it hands complete lines to the native    *)
(* core (CppLogger).  The core is not part of the sources: the calls made  *)
(* to it are recorded in `calls`, and the little of its behaviour that is  *)
(* needed (rank resolution, log_rank suppression) follows spec.md 4.2.     *)
(*                                                                         *)
(* Strings are sequences of one-character strings.  Methods are operators  *)
(* from a machine state m (a record of the mutable program state) to the   *)
(* machine state after the call, so that a method calling another method   *)
(* is the composition the code performs; an action applies one public      *)
(* call to the current state.                                              *)
(***************************************************************************)
EXTENDS Integers, Sequences, FiniteSets

VARIABLES
    state,            \* per Logger: "none" (not constructed), "open", "closed"
    original_stdout,  \* per Logger: self.original_stdout
    sys_stdout,       \* the process-wide sys.stdout: Console or a Logger
    cfg,              \* per Logger: the attributes recorded by the facade
    core,             \* per Logger: the configuration handed to the core, and whether it is open
    buffer,           \* per Logger: self._buffer
    calls,            \* the calls of the core's log, in order
    raised,           \* the exception the last call ended with, or "none"
    stack,            \* the active log_prints wrapper calls, innermost last
    env,              \* rank / world size published by the launcher's environment
    args,             \* history: the arguments each Logger was constructed with,
                      \*          and what sys.stdout was then
    written,          \* history: per Logger, all text given to write
    wtext,            \* history: per Logger, the text given to write since flush last emitted
    wlines,           \* history: per Logger, the lines write handed to the core since then
    last,             \* history: the last call made, on which Logger, and
                      \*          (reconfigure, log, info, ...) with which arguments
    obj,              \* the object a program declares and gives to log_prints(...)
    returned,         \* what log_prints(...)(obj) returned or raised
    declared,         \* history: obj as it was declared
    staticmethod_callable,  \* the interpreter: staticmethod objects are callable
                            \* (Python 3.10 and later) or not
    notset_exempt     \* the core: a message logged at level NOTSET passes a
                      \* configured severity threshold, or is held to it

dvars == <<obj, returned, declared, staticmethod_callable, notset_exempt>>

vars == <<state, original_stdout, sys_stdout, cfg, core, buffer, calls, raised,
          stack, env, args, written, wtext, wlines, last, dvars>>

---------------------------------------------------------------------------
(* Bounds of the model. *)
NumLoggers == 2
MaxMsgLen == 2
MaxText == 3
MaxLogs == 1
MaxDepth == 2
MaxPrints == 1
MaxAttrs == 2

(* Program values. *)
Console == 0      \* the stream sys.stdout names before any capture
None == -2        \* Python's None in an Optional[int] argument
NOTSET == -1
NotPassed == "not passed"   \* an argument the caller leaves to its default
DEBUG == 10
INFO == 20
WARNING == 30
ERROR == 40
CRITICAL == 50

Loggers == 1..NumLoggers

Chars == {"a", "\n", "\r"}
\* The characters of Chars at which str.splitlines ends a line.
LineBoundaries == {"\n", "\r"}

SeqsUpTo(S, n) == UNION {[1..k -> S] : k \in 0..n}
Messages == SeqsUpTo(Chars, MaxMsgLen)

---------------------------------------------------------------------------
(* Python's string and truthiness primitives. *)

\* x or d, for an Optional[int] x: None and 0 are falsy.
py_or(x, d) == IF x = None \/ x = 0 THEN d ELSE x

\* x or d, for a str x: the empty string is falsy.
py_or_str(x, d) == IF x = "" THEN d ELSE x

py_bool_explicit(x, d) == IF x = "None" THEN d ELSE x = "True"

\* x or d, for an Optional[bool] x given as "None", "False" or "True".
py_or_bool(x, d) == IF x = "True" THEN TRUE ELSE d

\* os.path.abspath: a path is a sequence of components, absolute when it
\* starts at "/"; a relative one is taken from the working directory.
abspath(p) == IF p # <<>> /\ p[1] = "/" THEN p ELSE <<"/", "cwd">> \o p

\* The objects given to log as message parts: strings and integers.
Str(s) == [type |-> "str", v |-> s]
IntObj(n) == [type |-> "int", v |-> n]

Digits == <<"0", "1", "2", "3", "4", "5", "6", "7", "8", "9">>

\* str(n) for an integer n: its decimal numeral.
RECURSIVE IntStr(_)
IntStr(n) ==
    IF n < 0 THEN <<"-">> \o IntStr(0 - n)
    ELSE IF n < 10 THEN <<Digits[n + 1]>>
    ELSE IntStr(n \div 10) \o <<Digits[(n % 10) + 1]>>

\* str(o)
py_str(o) == IF o.type = "int" THEN IntStr(o.v) ELSE o.v

endswith_newline(s) == s # <<>> /\ s[Len(s)] = "\n"

FirstBoundary(s) ==
    IF \E i \in 1..Len(s) : s[i] \in LineBoundaries
    THEN CHOOSE i \in 1..Len(s) :
            /\ s[i] \in LineBoundaries
            /\ \A j \in 1..(i - 1) : s[j] \notin LineBoundaries
    ELSE 0

\* str.splitlines(keepends=True): a line ends after "\n", after "\r", and
\* after "\r\n" taken as one boundary; the empty string has no lines.
RECURSIVE splitlines(_)
splitlines(s) ==
    IF s = <<>> THEN <<>>
    ELSE LET i == FirstBoundary(s) IN
         IF i = 0 THEN <<s>>
         ELSE LET e == IF s[i] = "\r" /\ i < Len(s) /\ s[i + 1] = "\n"
                       THEN i + 1 ELSE i
              IN <<SubSeq(s, 1, e)>> \o splitlines(SubSeq(s, e + 1, Len(s)))

---------------------------------------------------------------------------
(* The native core, as far as the facade's callers can see it. *)

\* The rank the core works with: the one it was given, else the one the
\* launcher's environment publishes when rank reporting is requested.
CoreResolvedRank(c) ==
    IF c.rank >= 0 THEN c.rank ELSE IF c.use_rank THEN env.rank ELSE -1

CoreResolvedWorldSize(c) ==
    IF c.world_size >= 0 THEN c.world_size
    ELSE IF c.use_rank THEN env.world_size ELSE -1

\* log is a silent no-op on every process but the designated one.
CoreEmits(c) == ~(c.log_rank >= 0 /\ c.log_rank # CoreResolvedRank(c))

\* Messages below the configured severity threshold are suppressed; NOTSET
\* is "no threshold".  Whether a message logged at NOTSET (raw passthrough)
\* counts as below a configured threshold is the core's choice.
CorePasses(c, level) ==
    \/ c.level = NOTSET
    \/ level >= c.level
    \/ level = NOTSET /\ notset_exempt

\* The write modes the core accepts; any other is a ValueError.
ValidMode(mode) == mode \in {"a", "w"}

\* The line is prefixed with "[rank/world_size] " when asked and resolved.
CorePrefixed(c, use_rank) ==
    use_rank /\ CoreResolvedRank(c) >= 0 /\ CoreResolvedWorldSize(c) >= 0

\* One call of the core's log by Logger l, as recorded in `calls`.  src and
\* arg name the facade method that made the call and its use_rank argument.
CoreLog(m, l, src, message, level, use_rank, arg_use_rank) ==
    [m EXCEPT !.calls = Append(@,
        [l |-> l, src |-> src, message |-> message, level |-> level,
         use_rank |-> use_rank,
         arg |-> arg_use_rank,
         core_open |-> m.core[l].open,
         file |-> m.core[l].file_path,
         emitted |-> CoreEmits(m.core[l]) /\ CorePasses(m.core[l], level),
         prefixed |-> CorePrefixed(m.core[l], use_rank)])]

---------------------------------------------------------------------------
(* The machine state the methods act on. *)
M == [cfg |-> cfg, buffer |-> buffer, calls |-> calls, core |-> core,
      sys_stdout |-> sys_stdout, raised |-> "none"]

flush_keeps(m, l) ==
    IF m.buffer[l] # <<>>
    THEN CoreLog(m, l, "flush", m.buffer[l], -1, m.cfg[l].use_rank, FALSE)
    ELSE m

\* Logger.flush
flush(m, l) ==
    IF m.buffer[l] # <<>>
    THEN LET m1 == CoreLog(m, l, "flush", m.buffer[l], -1, m.cfg[l].use_rank, FALSE)
         IN [m1 EXCEPT !.buffer[l] = <<>>]
    ELSE m

\* The lines one write hands to the core, and the fragment it keeps.
WriteKeeps_nopop(buf) == IF endswith_newline(buf) THEN <<>> ELSE buf

WriteLines_all(buf) == splitlines(buf)

WriteLines(buf) ==
    IF endswith_newline(buf) THEN splitlines(buf)
    ELSE SubSeq(splitlines(buf), 1, Len(splitlines(buf)) - 1)

WriteKeeps(buf) ==
    IF endswith_newline(buf) THEN <<>>
    ELSE splitlines(buf)[Len(splitlines(buf))]

RECURSIVE LogLines(_, _, _, _, _)
LogLines(m, l, lines, level, use_rank) ==
    IF lines = <<>> THEN m
    ELSE LogLines(CoreLog(m, l, "write", Head(lines), level,
                          m.cfg[l].use_rank \/ use_rank, use_rank),
                  l, Tail(lines), level, use_rank)

\* Logger.write.  lines.pop() on an empty list raises IndexError: that is
\* the write of "" into an empty buffer, which changes nothing.
write(m, l, message, level, use_rank) ==
    LET buf == m.buffer[l] \o message IN
    IF ~endswith_newline(buf) /\ splitlines(buf) = <<>>
    THEN [m EXCEPT !.buffer[l] = buf, !.raised = "IndexError"]
    ELSE LogLines([m EXCEPT !.buffer[l] = WriteKeeps(buf)], l,
                  WriteLines(buf), level, use_rank)

\* map(str, args)
map_str(parts) == [i \in 1..Len(parts) |-> py_str(parts[i])]

RECURSIVE join_concat(_, _)
join_concat(strs, sep) ==
    IF strs = <<>> THEN <<>> ELSE strs[1] \o join_concat(Tail(strs), sep)

\* sep.join(strs)
RECURSIVE join(_, _)
join(strs, sep) ==
    IF strs = <<>> THEN <<>>
    ELSE IF Len(strs) = 1 THEN strs[1]
    ELSE strs[1] \o sep \o join(Tail(strs), sep)

log_self_only(m, l, parts, sep, end, level, use_rank) ==
    CoreLog(m, l, "log", join(map_str(parts), sep) \o end, level,
            m.cfg[l].use_rank, use_rank)

log_flushes(m, l, parts, sep, end, level, use_rank) ==
    CoreLog(flush(m, l), l, "log", join(map_str(parts), sep) \o end, level,
            m.cfg[l].use_rank \/ use_rank, use_rank)

\* Logger.log: one message, handed to the core directly.
log(m, l, parts, sep, end, level, use_rank) ==
    CoreLog(m, l, "log", join(map_str(parts), sep) \o end, level,
            m.cfg[l].use_rank \/ use_rank, use_rank)

info_at_warning(m, l, parts, sep, end, use_rank) ==
    log(m, l, parts, sep, end, WARNING, use_rank)

\* Logger.debug / info / warning / error / critical
debug(m, l, parts, sep, end, use_rank) == log(m, l, parts, sep, end, DEBUG, use_rank)
info(m, l, parts, sep, end, use_rank) == log(m, l, parts, sep, end, INFO, use_rank)
warning(m, l, parts, sep, end, use_rank) == log(m, l, parts, sep, end, WARNING, use_rank)
error(m, l, parts, sep, end, use_rank) == log(m, l, parts, sep, end, ERROR, use_rank)
critical(m, l, parts, sep, end, use_rank) == log(m, l, parts, sep, end, CRITICAL, use_rank)

\* reconfigure's mode parameter: its default is 'a'.
SigMode(mode) == IF mode = NotPassed THEN "a" ELSE mode

\* The attributes Logger.reconfigure records before it flushes.
ReconfiguredCfg(c, a) ==
    [use_rank   |-> py_or_bool(a.use_rank, c.use_rank),
     rank       |-> py_or(a.rank, c.rank),
     world_size |-> py_or(a.world_size, c.world_size),
     log_rank   |-> py_or(a.log_rank, py_or(a.rank, c.rank)),
     mode       |-> py_or_str(SigMode(a.mode), c.mode),
     level      |-> py_or(a.level, c.level),
     file_path  |-> IF a.new_file_path # <<>> THEN abspath(a.new_file_path)
                    ELSE c.file_path]

\* The configuration the facade hands to the core's constructor / reconfigure.
HandedToCore(c) ==
    [use_rank |-> c.use_rank, rank |-> c.rank, world_size |-> c.world_size,
     log_rank |-> c.log_rank, mode |-> c.mode, level |-> c.level,
     file_path |-> c.file_path,
     open |-> TRUE]

reconfigure_switch_first(m, l, a) ==
    LET m1 == [m EXCEPT !.cfg[l] = ReconfiguredCfg(m.cfg[l], a)]
    IN flush([m1 EXCEPT !.core[l] = HandedToCore(m1.cfg[l])], l)

\* Logger.reconfigure: record the merged attributes, flush, reconfigure the core.
reconfigure(m, l, a) ==
    LET m1 == [m EXCEPT !.cfg[l] = ReconfiguredCfg(m.cfg[l], a)]
        m2 == flush(m1, l)
    IN IF ValidMode(m2.cfg[l].mode)
       THEN [m2 EXCEPT !.core[l] = HandedToCore(m2.cfg[l])]
       ELSE [m2 EXCEPT !.raised = "ValueError"]

\* Logger.redirect_print
redirect_print(m, l) == [flush(m, l) EXCEPT !.sys_stdout = l]

reset_print_keeps(m, l) == flush(m, l)

\* Logger.reset_print
reset_print(m, l) == [flush(m, l) EXCEPT !.sys_stdout = original_stdout[l]]

close_core_first(m, l) ==
    reset_print(flush([m EXCEPT !.core[l].open = FALSE], l), l)

\* Logger.close
close(m, l) ==
    LET m1 == reset_print(flush(m, l), l)
    IN [m1 EXCEPT !.core[l].open = FALSE]

\* Logger.__del__
del(m, l) == reset_print(close(flush(m, l), l), l)

\* The attributes Logger.__init__ records.
InitCfg(a) ==
    [use_rank   |-> a.use_rank,
     rank       |-> py_or(a.rank, -1),
     world_size |-> py_or(a.world_size, -1),
     log_rank   |-> py_or(a.log_rank, -1),
     mode       |-> a.mode,
     level      |-> a.level,
     file_path  |-> IF a.file_path # <<>> THEN abspath(a.file_path) ELSE <<>>]

\* Logger.__init__ (original_stdout is set by the action, from sys.stdout).
init(m, l, a) ==
    [m EXCEPT !.cfg[l] = InitCfg(a),
              !.buffer[l] = <<>>,
              !.core[l] = HandedToCore(InitCfg(a))]

---------------------------------------------------------------------------
(* log_prints(...)(obj): the decorator applied to an object.  An object is
   known by its kind; a class also by its directly declared attributes, in
   the order of its __dict__, and by those it inherits; a wrapper by the
   function it wraps. *)

Obj(k) == [kind |-> k]
Class(attrs, inherited) == [kind |-> "class", attrs |-> attrs, inherited |-> inherited]
NoObject == Obj("none")

\* functools.wraps(obj)(wrapper): a function that runs obj inside `with logger`.
Wrapper(v) == [kind |-> "function", wraps |-> v]

\* inspect.isclass, inspect.isfunction / inspect.ismethod, callable
isclass(v) == v.kind = "class"
isfunction(v) == v.kind = "function"
ismethod(v) == v.kind = "method"
callable(v) ==
    \/ v.kind \in {"function", "method", "class", "callable_object"}
    \/ v.kind = "staticmethod" /\ staticmethod_callable

decorator_lenient(v) ==
    IF isfunction(v) \/ ismethod(v) THEN [raised |-> "none", value |-> Wrapper(v)]
    ELSE [raised |-> "none", value |-> v]

\* decorator(obj): what it raises, and obj's replacement (a class is changed
\* in place, so its value is the class as the call leaves it, also when the
\* call raises).  wrap_attrs is the loop over obj.__dict__.items() from the
\* i-th attribute on.
RECURSIVE decorator(_)
RECURSIVE wrap_attrs(_, _)
decorator(v) ==
    IF isclass(v) THEN wrap_attrs(v, 1)
    ELSE IF isfunction(v) \/ ismethod(v)
    THEN [raised |-> "none", value |-> Wrapper(v)]
    ELSE [raised |-> "ValueError", value |-> v]

wrap_attrs(c, i) ==
    IF i > Len(c.attrs) THEN [raised |-> "none", value |-> c]
    ELSE IF callable(c.attrs[i])
    THEN LET r == decorator(c.attrs[i])
             c1 == [c EXCEPT !.attrs[i] = r.value]
         IN IF r.raised # "none" THEN [raised |-> r.raised, value |-> c1]
            ELSE wrap_attrs(c1, i + 1)
    ELSE wrap_attrs(c, i + 1)

NotDecorated == [raised |-> "pending", value |-> NoObject]

---------------------------------------------------------------------------
(* Argument sets. *)
OptBool == {"None", "False", "True"}

CtorArgs(ranks, sizes, logranks) ==
    [use_rank : BOOLEAN, rank : ranks, world_size : sizes, log_rank : logranks,
     mode : {"a"}, level : {NOTSET}, file_path : {<<>>}]

NoCfg == [use_rank |-> FALSE, rank |-> -1, world_size |-> -1, log_rank |-> -1,
          mode |-> "a", level |-> NOTSET, file_path |-> <<>>]
NoCore == [use_rank |-> FALSE, rank |-> -1, world_size |-> -1, log_rank |-> -1,
           mode |-> "a", level |-> NOTSET, file_path |-> <<>>, open |-> FALSE]
NoArgs == [use_rank |-> FALSE, rank |-> None, world_size |-> None,
           log_rank |-> None, reconfigured |-> FALSE, fresh |-> FALSE,
           stdout_at_init |-> Console]

\* The launcher publishes nothing, or rank 1 of 2.
NoEnv == [rank |-> -1, world_size |-> -1]
Envs == {NoEnv, [rank |-> 1, world_size |-> 2]}

---------------------------------------------------------------------------
(* History bookkeeping shared by the actions. *)

Last(op, l) == [op |-> op, l |-> l]

NewCalls(m) == SubSeq(m.calls, Len(calls) + 1, Len(m.calls))

Flushed(m, k) ==
    \E i \in 1..Len(NewCalls(m)) : NewCalls(m)[i].l = k /\ NewCalls(m)[i].src = "flush"

\* The program state after a call, and the histories of a call that is not a write.
Apply(m) ==
    /\ Cardinality({i \in 1..Len(m.calls) : m.calls[i].src = "log"}) <= MaxLogs
    /\ cfg' = m.cfg
    /\ buffer' = m.buffer
    /\ calls' = m.calls
    /\ core' = m.core
    /\ sys_stdout' = m.sys_stdout
    /\ raised' = m.raised

NoWrite(m) ==
    /\ written' = written
    /\ wtext' = [k \in Loggers |-> IF Flushed(m, k) THEN <<>> ELSE wtext[k]]
    /\ wlines' = [k \in Loggers |-> IF Flushed(m, k) THEN <<>> ELSE wlines[k]]

Wrote(m, l, message) ==
    /\ Len(written[l]) + Len(message) <= MaxText
    /\ written' = [written EXCEPT ![l] = @ \o message]
    /\ wtext' = [wtext EXCEPT ![l] = @ \o message]
    /\ wlines' = [wlines EXCEPT ![l] =
                    @ \o [i \in 1..Len(NewCalls(m)) |-> NewCalls(m)[i].message]]

---------------------------------------------------------------------------
(* Actions: one public call each. *)

\* Before any Logger is constructed.
NoLogger ==
    /\ state = [l \in Loggers |-> "none"]
    /\ original_stdout = [l \in Loggers |-> Console]
    /\ sys_stdout = Console
    /\ cfg = [l \in Loggers |-> NoCfg]
    /\ core = [l \in Loggers |-> NoCore]
    /\ buffer = [l \in Loggers |-> <<>>]
    /\ calls = <<>>
    /\ raised = "none"
    /\ stack = <<>>
    /\ args = [l \in Loggers |-> NoArgs]
    /\ written = [l \in Loggers |-> <<>>]
    /\ wtext = [l \in Loggers |-> <<>>]
    /\ wlines = [l \in Loggers |-> <<>>]
    /\ last = Last("start", Console)
    /\ obj = NoObject
    /\ returned = NotDecorated
    /\ declared = NoObject

\* Without severity threshold and decoration, the interpreter's and the
\* core's variants behave alike.
Init == NoLogger /\ env = NoEnv /\ staticmethod_callable = TRUE /\ notset_exempt = TRUE

\* Logger(name, ..., use_rank, rank, world_size, ..., log_rank)
Construct(l, a) ==
    /\ state[l] = "none"
    /\ Apply(init(M, l, a))
    /\ NoWrite(M)
    /\ state' = [state EXCEPT ![l] = "open"]
    /\ original_stdout' = [original_stdout EXCEPT ![l] = sys_stdout]
    /\ args' = [args EXCEPT ![l] = [use_rank |-> a.use_rank, rank |-> a.rank,
                                    world_size |-> a.world_size,
                                    log_rank |-> a.log_rank,
                                    reconfigured |-> FALSE, fresh |-> FALSE,
                                    stdout_at_init |-> sys_stdout]]
    /\ last' = Last("init", l)
    /\ UNCHANGED <<stack, env>>
    /\ UNCHANGED dvars

\* logger.write(message, level, use_rank)
Write(l, message, level, use_rank) ==
    LET m == write(M, l, message, level, use_rank) IN
    /\ Apply(m)
    /\ Wrote(m, l, message)
    /\ last' = Last("write", l)
    /\ UNCHANGED <<state, original_stdout, stack, env, args>>
    /\ UNCHANGED dvars

\* logger.flush()
Flush(l) ==
    LET m == flush(M, l) IN
    /\ Apply(m)
    /\ NoWrite(m)
    /\ last' = Last("flush", l)
    /\ UNCHANGED <<state, original_stdout, stack, env, args>>
    /\ UNCHANGED dvars

\* logger.log(*parts, sep, end, level, use_rank)
Log(l, parts, sep, end, level, use_rank) ==
    LET m == log(M, l, parts, sep, end, level, use_rank) IN
    /\ Apply(m)
    /\ NoWrite(m)
    /\ last' = [op |-> "log", l |-> l, parts |-> parts, sep |-> sep, end |-> end]
    /\ UNCHANGED <<state, original_stdout, stack, env, args>>
    /\ UNCHANGED dvars

\* What a per-level call leaves behind: m is the machine state after it.
LevelCall(op, m, l, parts, sep, end) ==
    /\ Apply(m)
    /\ NoWrite(m)
    /\ last' = [op |-> op, l |-> l, parts |-> parts, sep |-> sep, end |-> end]
    /\ UNCHANGED <<state, original_stdout, stack, env, args>>
    /\ UNCHANGED dvars

\* logger.debug(*parts, sep, end, use_rank), and so on
Debug(l, parts, sep, end, use_rank) ==
    LevelCall("debug", debug(M, l, parts, sep, end, use_rank), l, parts, sep, end)

Info(l, parts, sep, end, use_rank) ==
    LevelCall("info", info(M, l, parts, sep, end, use_rank), l, parts, sep, end)

Warning(l, parts, sep, end, use_rank) ==
    LevelCall("warning", warning(M, l, parts, sep, end, use_rank), l, parts, sep, end)

Error(l, parts, sep, end, use_rank) ==
    LevelCall("error", error(M, l, parts, sep, end, use_rank), l, parts, sep, end)

Critical(l, parts, sep, end, use_rank) ==
    LevelCall("critical", critical(M, l, parts, sep, end, use_rank), l, parts, sep, end)

\* logger.reconfigure(use_rank, rank, world_size, log_rank)
Reconfigure(l, a) ==
    LET m == reconfigure(M, l, a) IN
    /\ Apply(m)
    /\ NoWrite(m)
    /\ args' = [args EXCEPT ![l].reconfigured = TRUE]
    /\ last' = [op |-> "reconfigure", l |-> l, a |-> a]
    /\ UNCHANGED <<state, original_stdout, stack, env>>
    /\ UNCHANGED dvars

\* logger.redirect_print()
RedirectPrint(l) ==
    LET m == redirect_print(M, l) IN
    /\ Apply(m)
    /\ NoWrite(m)
    /\ last' = Last("redirect_print", l)
    /\ UNCHANGED <<state, original_stdout, stack, env, args>>
    /\ UNCHANGED dvars

\* logger.reset_print()
ResetPrint(l) ==
    LET m == reset_print(M, l) IN
    /\ Apply(m)
    /\ NoWrite(m)
    /\ last' = Last("reset_print", l)
    /\ UNCHANGED <<state, original_stdout, stack, env, args>>
    /\ UNCHANGED dvars

\* logger.close()
Close(l) ==
    LET m == close(M, l) IN
    /\ Apply(m)
    /\ NoWrite(m)
    /\ state' = [state EXCEPT ![l] = "closed"]
    /\ last' = Last("close", l)
    /\ UNCHANGED <<original_stdout, stack, env, args>>
    /\ UNCHANGED dvars

\* print(message, end=""): sys.stdout.write(message), whatever sys.stdout is.
StdoutWrite(message) ==
    LET m == IF sys_stdout \in Loggers
             THEN write(M, sys_stdout, message, NOTSET, FALSE) ELSE M
    IN
    /\ Apply(m)
    /\ IF sys_stdout \in Loggers THEN Wrote(m, sys_stdout, message) ELSE NoWrite(m)
    /\ last' = Last("print", sys_stdout)
    /\ UNCHANGED <<state, original_stdout, stack, env, args>>
    /\ UNCHANGED dvars

\* A call of a function wrapped by log_prints(logger_instance=l):
\* get_logger() returns l, and `with logger:` enters.
WrapperCallInstance(l) ==
    LET m == redirect_print(M, l) IN
    /\ Len(stack) < MaxDepth
    /\ state[l] = "open"
    /\ Apply(m)
    /\ NoWrite(m)
    /\ stack' = Append(stack, [l |-> l, before |-> sys_stdout])
    /\ last' = Last("wrapper_call", l)
    /\ UNCHANGED <<state, original_stdout, env, args>>
    /\ UNCHANGED dvars

\* A call of a function wrapped by log_prints(name=..., use_rank=..., ...):
\* get_logger() constructs Logger l, and `with logger:` enters.
WrapperCallFresh(l, a) ==
    LET m == redirect_print(init(M, l, a), l) IN
    /\ Len(stack) < MaxDepth
    /\ state[l] = "none"
    /\ Apply(m)
    /\ NoWrite(m)
    /\ state' = [state EXCEPT ![l] = "open"]
    /\ original_stdout' = [original_stdout EXCEPT ![l] = sys_stdout]
    /\ args' = [args EXCEPT ![l] = [use_rank |-> a.use_rank, rank |-> a.rank,
                                    world_size |-> a.world_size,
                                    log_rank |-> None,
                                    reconfigured |-> FALSE, fresh |-> TRUE,
                                    stdout_at_init |-> sys_stdout]]
    /\ stack' = Append(stack, [l |-> l, before |-> sys_stdout])
    /\ last' = Last("wrapper_call", l)
    /\ UNCHANGED env
    /\ UNCHANGED dvars

\* The wrapped function returns or raises exc: `with logger:` exits.
WrapperExit(exc) ==
    /\ stack # <<>>
    /\ LET l == stack[Len(stack)].l
           m == [reset_print(M, l) EXCEPT !.raised = exc]
       IN /\ Apply(m)
          /\ NoWrite(m)
          /\ last' = Last("wrapper_exit", l)
    /\ stack' = SubSeq(stack, 1, Len(stack) - 1)
    /\ UNCHANGED <<state, original_stdout, env, args>>
    /\ UNCHANGED dvars

\* Nothing refers to Logger l any more: not sys.stdout, not another Logger's
\* original_stdout, not an active wrapper call.
Unreferenced(l) ==
    /\ sys_stdout # l
    /\ \A k \in Loggers \ {l} : state[k] # "none" => original_stdout[k] # l
    /\ \A i \in 1..Len(stack) : stack[i].l # l /\ stack[i].before # l

\* The last reference to Logger l is dropped: __del__ runs and l is gone.
Del(l) ==
    LET m == del(M, l) IN
    /\ state[l] # "none"
    /\ Unreferenced(l)
    /\ Apply([m EXCEPT !.cfg[l] = NoCfg, !.core[l] = NoCore])
    /\ NoWrite(m)
    /\ state' = [state EXCEPT ![l] = "none"]
    /\ original_stdout' = [original_stdout EXCEPT ![l] = Console]
    /\ args' = [args EXCEPT ![l] = NoArgs]
    /\ last' = Last("del", l)
    /\ UNCHANGED <<stack, env>>
    /\ UNCHANGED dvars

\* The program declares a function, a class or another object.
Declare(o) ==
    /\ obj = NoObject
    /\ obj' = o
    /\ declared' = o
    /\ returned' = NotDecorated
    /\ UNCHANGED <<state, original_stdout, sys_stdout, cfg, core, buffer, calls,
                   raised, stack, env, args, written, wtext, wlines, last,
                   staticmethod_callable, notset_exempt>>

\* log_prints(...)(obj).  No Logger is made or used before a wrapper is called.
Decorate ==
    /\ obj # NoObject
    /\ returned = NotDecorated
    /\ LET r == decorator(obj) IN
         /\ obj' = IF isclass(obj) THEN r.value ELSE obj
         /\ returned' = [raised |-> r.raised,
                         value |-> IF r.raised = "none" THEN r.value ELSE NoObject]
    /\ UNCHANGED <<state, original_stdout, sys_stdout, cfg, core, buffer, calls,
                   raised, stack, env, args, written, wtext, wlines, last,
                   declared, staticmethod_callable, notset_exempt>>

---------------------------------------------------------------------------
(* One Logger used through its own methods. *)

NoRank == {None}

\* The calls a client makes on Logger 1 while it has not closed it.  write
\* and log are called with their default level and use_rank here.
Next ==
    \/ \E a \in CtorArgs(NoRank, NoRank, NoRank) : Construct(1, a)
    \/ \E msg \in Messages : state[1] = "open" /\ Write(1, msg, NOTSET, FALSE)
    \/ state[1] = "open" /\ Flush(1)
    \/ state[1] = "open" /\ Log(1, <<Str(<<"a">>), Str(<<"a">>)>>, <<>>, <<"\n">>, NOTSET, FALSE)
    \/ \E ur \in {"None", "True"} :
          /\ state[1] = "open"
          /\ Reconfigure(1, [use_rank |-> ur, rank |-> None, world_size |-> None,
                             log_rank |-> None, mode |-> NotPassed, level |-> None,
                             new_file_path |-> <<>>])
    \/ state[1] = "open" /\ RedirectPrint(1)
    \/ state[1] = "open" /\ ResetPrint(1)
    \/ state[1] = "open" /\ Close(1)
    \/ \E msg \in Messages : state[1] = "open" /\ StdoutWrite(msg)

Spec == Init /\ [][Next]_vars

---------------------------------------------------------------------------
(* Several Loggers, explicit capture and functions wrapped by log_prints.
   Client code runs at top level (no wrapper call active) and calls methods of
   Loggers it has not closed; the body of a wrapped function prints and calls
   other wrapped functions; a Logger is destroyed when nothing refers to it
   (inside a wrapped body: a Logger that a returned wrapper call made). *)

PlainArgs == [use_rank |-> FALSE, rank |-> None, world_size |-> None,
              log_rank |-> None, mode |-> "a", level |-> NOTSET, file_path |-> <<>>]
CaptureMessages == {<<"a">>, <<"a", "\n">>}

RECURSIVE SumLen(_, _)
SumLen(f, S) ==
    IF S = {} THEN 0
    ELSE LET x == CHOOSE y \in S : TRUE IN Len(f[x]) + SumLen(f, S \ {x})

\* The prints captured so far are fewer than MaxPrints characters.
MayPrint == SumLen(written, Loggers) < MaxPrints

\* The client has a reference to Logger l, which it has not closed: it made
\* l itself (a Logger that a wrapper call made is known to that call only).
UserHolds(l) == state[l] = "open" /\ ~args[l].fresh

NextCapture ==
    \/ \E l \in Loggers : stack = <<>> /\ Construct(l, PlainArgs)
    \/ \E l \in Loggers : stack = <<>> /\ UserHolds(l) /\ RedirectPrint(l)
    \/ \E l \in Loggers : stack = <<>> /\ UserHolds(l) /\ ResetPrint(l)
    \/ \E l \in Loggers : stack = <<>> /\ UserHolds(l) /\ Close(l)
    \/ \E l \in Loggers : UserHolds(l) /\ WrapperCallInstance(l)
    \/ \E l \in Loggers : WrapperCallFresh(l, PlainArgs)
    \/ \E exc \in {"none", "Exception"} : WrapperExit(exc)
    \/ \E msg \in CaptureMessages : MayPrint /\ StdoutWrite(msg)
    \/ \E l \in Loggers : (stack = <<>> \/ args[l].fresh) /\ Del(l)

SpecCapture == Init /\ [][NextCapture]_vars

---------------------------------------------------------------------------
(* One Logger constructed and reconfigured with rank settings, on a process
   whose launcher may publish a rank.  The caller gives rank and world_size
   together or not at all. *)

RankPairs == {<<None, None>>, <<0, 2>>, <<1, 2>>}
LogRanks == {None, 0, 1}
RankMessages == {<<"a">>, <<"a", "\n">>}

InitRank ==
    NoLogger /\ env \in Envs /\ staticmethod_callable = TRUE /\ notset_exempt = TRUE

NextRank ==
    \/ \E ur \in BOOLEAN, rw \in RankPairs, lr \in LogRanks :
          Construct(1, [use_rank |-> ur, rank |-> rw[1], world_size |-> rw[2],
                        log_rank |-> lr, mode |-> "a", level |-> NOTSET, file_path |-> <<>>])
    \/ \E rw \in RankPairs, lr \in LogRanks :
          /\ state[1] = "open"
          /\ Reconfigure(1, [use_rank |-> "None", rank |-> rw[1],
                             world_size |-> rw[2], log_rank |-> lr,
                             mode |-> NotPassed, level |-> None, new_file_path |-> <<>>])
    \/ \E msg \in RankMessages : state[1] = "open" /\ Write(1, msg, NOTSET, FALSE)
    \/ state[1] = "open" /\ Flush(1)
    \/ state[1] = "open" /\ Log(1, <<Str(<<"a">>)>>, <<>>, <<"\n">>, NOTSET, FALSE)

SpecRank == InitRank /\ [][NextRank]_vars

---------------------------------------------------------------------------
(* One Logger whose calls choose use_rank: at construction, by reconfigure
   (which may also pass a zero rank or world size) and call by call. *)

NextFlag ==
    \/ \E ur \in BOOLEAN :
          Construct(1, [use_rank |-> ur, rank |-> 1, world_size |-> 2,
                        log_rank |-> None, mode |-> "a", level |-> NOTSET, file_path |-> <<>>])
    \/ \E ur \in OptBool, r \in {None, 0}, w \in {None, 0} :
          /\ state[1] = "open"
          /\ Reconfigure(1, [use_rank |-> ur, rank |-> r, world_size |-> w,
                             log_rank |-> None, mode |-> NotPassed, level |-> None,
                             new_file_path |-> <<>>])
    \/ \E msg \in RankMessages, lv \in {NOTSET, INFO}, ur \in BOOLEAN :
          state[1] = "open" /\ Write(1, msg, lv, ur)
    \/ state[1] = "open" /\ Flush(1)
    \/ \E lv \in {NOTSET, INFO}, ur \in BOOLEAN :
          state[1] = "open" /\ Log(1, <<Str(<<"a">>)>>, <<>>, <<"\n">>, lv, ur)

SpecFlag == Init /\ [][NextFlag]_vars

---------------------------------------------------------------------------
(* One Logger that writes to a file and is moved to another file by
   reconfigure.  Only reconfigure flushes here. *)

OldPaths == {<<>>, <<"old.log">>}
NewPaths == {<<>>, <<"new.log">>, <<"/", "var", "new.log">>}

NextFile ==
    \/ \E fp \in OldPaths : Construct(1, [PlainArgs EXCEPT !.file_path = fp])
    \/ \E fp \in NewPaths, ur \in {"None", "True"} :
          /\ state[1] = "open"
          /\ Reconfigure(1, [use_rank |-> ur, rank |-> None, world_size |-> None,
                             log_rank |-> None, mode |-> NotPassed, level |-> None,
                             new_file_path |-> fp])
    \/ \E msg \in RankMessages : state[1] = "open" /\ Write(1, msg, NOTSET, FALSE)
    \/ state[1] = "open" /\ Log(1, <<Str(<<"a">>)>>, <<>>, <<"\n">>, NOTSET, FALSE)

SpecFile == Init /\ [][NextFile]_vars

---------------------------------------------------------------------------
(* One Logger with a severity threshold, called through log and the
   per-level methods, with writes in between. *)

Thresholds == {NOTSET, DEBUG, INFO, WARNING, ERROR, CRITICAL}
PartsSets == {<<>>, <<Str(<<"a">>)>>, <<Str(<<"a">>), Str(<<"b">>)>>,
              <<Str(<<"a">>), IntObj(42)>>}
Seps == {<<" ">>, <<"-">>}
Ends == {<<"\n">>, <<".">>}

NextLevel ==
    \/ \E lv \in Thresholds : Construct(1, [PlainArgs EXCEPT !.level = lv])
    \/ \E lv \in {None, WARNING} :
          /\ state[1] = "open"
          /\ Reconfigure(1, [use_rank |-> "None", rank |-> None, world_size |-> None,
                             log_rank |-> None, mode |-> NotPassed, level |-> lv,
                             new_file_path |-> <<>>])
    \/ \E msg \in RankMessages : state[1] = "open" /\ Write(1, msg, NOTSET, FALSE)
    \/ \E parts \in PartsSets, sep \in Seps, end \in Ends :
          state[1] = "open" /\ Log(1, parts, sep, end, NOTSET, FALSE)
    \/ \E parts \in PartsSets, sep \in Seps, end \in Ends :
          state[1] = "open" /\ Debug(1, parts, sep, end, FALSE)
    \/ \E parts \in PartsSets, sep \in Seps, end \in Ends :
          state[1] = "open" /\ Info(1, parts, sep, end, FALSE)
    \/ \E parts \in PartsSets, sep \in Seps, end \in Ends :
          state[1] = "open" /\ Warning(1, parts, sep, end, FALSE)
    \/ \E parts \in PartsSets, sep \in Seps, end \in Ends :
          state[1] = "open" /\ Error(1, parts, sep, end, FALSE)
    \/ \E parts \in PartsSets, sep \in Seps, end \in Ends :
          state[1] = "open" /\ Critical(1, parts, sep, end, FALSE)

InitLevel ==
    NoLogger /\ env = NoEnv /\ staticmethod_callable = TRUE /\ notset_exempt \in BOOLEAN

SpecLevel == InitLevel /\ [][NextLevel]_vars

---------------------------------------------------------------------------
(* The decorator applied to one declared object, under either interpreter. *)

AttrKinds == {"function", "staticmethod", "classmethod", "callable_object", "data"}
Leaves == {Obj(k) : k \in AttrKinds}
NestedClasses == {Class(attrs, <<>>) : attrs \in SeqsUpTo(Leaves, 1)}
Inherited == {<<>>, <<Obj("function")>>}
Classes == {Class(attrs, inh) : attrs \in SeqsUpTo(Leaves \cup NestedClasses, MaxAttrs),
                                inh \in Inherited}
Declarable == Classes \cup Leaves \cup {Obj("method")}

InitDecorate ==
    NoLogger /\ env = NoEnv /\ staticmethod_callable \in BOOLEAN /\ notset_exempt = TRUE

NextDecorate ==
    \/ \E o \in Declarable : Declare(o)
    \/ Decorate

SpecDecorate == InitDecorate /\ [][NextDecorate]_vars

---------------------------------------------------------------------------
(* One Logger on a file, opened in append or overwrite mode and reconfigured
   with and without a mode, valid or not. *)

Modes == {"a", "w"}
ModeArgs == {NotPassed, "", "a", "w", "x"}

NextMode ==
    \/ \E md \in Modes :
          Construct(1, [PlainArgs EXCEPT !.mode = md, !.file_path = <<"old.log">>])
    \/ \E md \in ModeArgs, fp \in {<<>>, <<"new.log">>} :
          /\ state[1] = "open"
          /\ Reconfigure(1, [use_rank |-> "None", rank |-> None, world_size |-> None,
                             log_rank |-> None, mode |-> md, level |-> None,
                             new_file_path |-> fp])
    \/ \E msg \in RankMessages : state[1] = "open" /\ Write(1, msg, NOTSET, FALSE)
    \/ state[1] = "open" /\ Log(1, <<Str(<<"a">>)>>, <<>>, <<"\n">>, NOTSET, FALSE)

SpecMode == Init /\ [][NextMode]_vars

---------------------------------------------------------------------------
(* One Logger written to while it is open, then closed by its owner or not,
   and destroyed. *)

NextTeardown ==
    \/ Construct(1, PlainArgs)
    \/ \E msg \in RankMessages : state[1] = "open" /\ Write(1, msg, NOTSET, FALSE)
    \/ state[1] = "open" /\ Flush(1)
    \/ state[1] = "open" /\ Log(1, <<Str(<<"a">>)>>, <<>>, <<"\n">>, NOTSET, FALSE)
    \/ state[1] = "open" /\ Close(1)
    \/ Del(1)

SpecTeardown == Init /\ [][NextTeardown]_vars

---------------------------------------------------------------------------
(* Lines in the sense of the specification: ended by "\n" and nothing else. *)

FirstNewline(s) ==
    IF \E i \in 1..Len(s) : s[i] = "\n"
    THEN CHOOSE i \in 1..Len(s) : s[i] = "\n" /\ \A j \in 1..(i - 1) : s[j] # "\n"
    ELSE 0

\* The newline-terminated substrings of s, in order.
RECURSIVE NewlineTerminated(_)
NewlineTerminated(s) ==
    IF FirstNewline(s) = 0 THEN <<>>
    ELSE <<SubSeq(s, 1, FirstNewline(s))>>
         \o NewlineTerminated(SubSeq(s, FirstNewline(s) + 1, Len(s)))

\* The fragment of s after its last "\n".
RECURSIVE Unterminated(_)
Unterminated(s) ==
    IF FirstNewline(s) = 0 THEN s
    ELSE Unterminated(SubSeq(s, FirstNewline(s) + 1, Len(s)))

Constructed == {l \in Loggers : state[l] # "none"}

---------------------------------------------------------------------------
(* C1: the lines write hands to the core, in order, are exactly the
   newline-terminated substrings of the text written so far (since flush last
   emitted a fragment), each ending in "\n" and holding no other line break,
   and the unterminated rest is still in the buffer. *)
C1_WriteEmitsNewlineTerminatedLines ==
    \A l \in Constructed :
        /\ wlines[l] = NewlineTerminated(wtext[l])
        /\ buffer[l] = Unterminated(wtext[l])
        /\ \A i \in 1..Len(wlines[l]) :
              /\ wlines[l][i][Len(wlines[l][i])] = "\n"
              /\ \A j \in 1..(Len(wlines[l][i]) - 1) :
                    wlines[l][i][j] \notin LineBoundaries

(* C2: flush with a fragment in the buffer hands exactly that fragment to the
   core's log once, at level NOTSET and with the instance's use_rank, and
   empties the buffer; flush with an empty buffer (so a second flush right
   after) hands nothing to the core. *)
C2_FlushEmitsFragmentOnce ==
    [][\A l \in Loggers :
        (last'.op = "flush" /\ last'.l = l) =>
            /\ buffer'[l] = <<>>
            /\ IF buffer[l] # <<>>
               THEN /\ Len(calls') = Len(calls) + 1
                    /\ SubSeq(calls', 1, Len(calls)) = calls
                    /\ calls'[Len(calls')].l = l
                    /\ calls'[Len(calls')].message = buffer[l]
                    /\ calls'[Len(calls')].level = NOTSET
                    /\ calls'[Len(calls')].use_rank = cfg[l].use_rank
               ELSE calls' = calls]_vars

\* flush has just emitted a fragment that a write had left in the buffer.
C2_Witness ==
    /\ last.op = "flush"
    /\ calls # <<>>
    /\ calls[Len(calls)].src = "flush"
    /\ calls[Len(calls)].message = <<"a", "a">>
    /\ calls[Len(calls)].level = NOTSET
    /\ buffer[1] = <<>>

(* C3: the line buffer of a Logger never contains a newline character. *)
C3_BufferHoldsNoNewline ==
    \A l \in Loggers : \A i \in 1..Len(buffer[l]) : buffer[l][i] # "\n"

\* A write has handed a line to the core and kept the fragment after it.
C3_Witness ==
    /\ last.op = "write"
    /\ wlines[1] = << <<"\n">> >>
    /\ buffer[1] = <<"a">>

(* C4: when a call of a function wrapped by log_prints returns or raises,
   sys.stdout is what it was immediately before the call. *)
C4_WrapperRestoresPriorStdout ==
    [][last'.op = "wrapper_exit" => sys_stdout' = stack[Len(stack)].before]_vars

(* C5: while a wrapped function runs, sys.stdout is the Logger of that call. *)
C5_StdoutIsCallsLoggerDuringCall ==
    stack # <<>> => sys_stdout = stack[Len(stack)].l

(* C6: sys.stdout is never a closed Logger, and it is the console once every
   Logger has been closed or destroyed. *)
C6_CaptureNeverDangling ==
    /\ sys_stdout \in Loggers => state[sys_stdout] = "open"
    /\ (stack = <<>> /\ \A l \in Loggers : state[l] # "open") => sys_stdout = Console

\* Logger l still has the configuration it was constructed with.
AsConstructed(l) == state[l] # "none" /\ ~args[l].reconfigured

(* C7: a Logger constructed with use_rank=True, a rank r >= 0 and a
   world_size w hands exactly r and w to the core, and every line it emits
   carries the rank prefix. *)
C7_ExplicitRankReachesCore ==
    \A l \in Loggers :
        (AsConstructed(l) /\ args[l].use_rank /\ args[l].rank >= 0
            /\ args[l].world_size >= 0) =>
            /\ core[l].rank = args[l].rank
            /\ core[l].world_size = args[l].world_size
            /\ \A i \in 1..Len(calls) : calls[i].l = l => calls[i].prefixed

(* C8: a Logger constructed with log_rank L >= 0 designates process L to the
   core, and emits on the process whose resolved rank is L and on no other. *)
C8_LogRankSelectsOneProcess ==
    /\ \A l \in Loggers :
          (AsConstructed(l) /\ args[l].log_rank >= 0) =>
              core[l].log_rank = args[l].log_rank
    /\ \A i \in 1..Len(calls) :
          LET l == calls[i].l IN
          (AsConstructed(l) /\ args[l].log_rank >= 0 /\ CoreResolvedRank(core[l]) >= 0) =>
              (calls[i].emitted <=> args[l].log_rank = CoreResolvedRank(core[l]))

(* C9 as claimed: a Logger constructed with use_rank=False hands
   use_rank=False to the core for every emission. *)
C9_NoRankFlagWithoutUseRank ==
    \A i \in 1..Len(calls) :
        (AsConstructed(calls[i].l) /\ ~args[calls[i].l].use_rank) => ~calls[i].use_rank

(* C9: the use_rank handed to the core with a line is the instance's
   use_rank or the use_rank argument of the call that emits it; so a Logger
   whose use_rank is False hands False except for the calls that pass
   use_rank=True themselves. *)
C9_RankFlagIsInstanceOrCall ==
    [][\A i \in (Len(calls) + 1)..Len(calls') :
          calls'[i].use_rank = (cfg'[calls'[i].l].use_rank \/ calls'[i].arg)]_vars

\* A Logger made with use_rank=False has emitted a line of a call that
\* passed use_rank=True, and one of a call that did not.
C9_Witness ==
    /\ AsConstructed(1) /\ ~args[1].use_rank
    /\ \E i \in 1..Len(calls) : calls[i].src = "log" /\ calls[i].arg /\ calls[i].use_rank
    /\ \E i \in 1..Len(calls) : calls[i].src = "write" /\ ~calls[i].arg /\ ~calls[i].use_rank

(* C10: the recorded rank and world_size are both resolved (>= 0) or both
   unresolved (-1). *)
C10_RankAndWorldSizeResolvedTogether ==
    \A l \in Constructed :
        \/ cfg[l].rank >= 0 /\ cfg[l].world_size >= 0
        \/ cfg[l].rank = -1 /\ cfg[l].world_size = -1

(* C11: reconfigure called without a log_rank argument keeps the log_rank:
   the log_rank the facade records and hands to the core's reconfigure is
   the one in effect before the call. *)
C11_ReconfigureKeepsLogRank ==
    [][\A l \in Loggers :
        (last'.op = "reconfigure" /\ last'.l = l /\ last'.a.log_rank = None) =>
            /\ cfg'[l].log_rank = cfg[l].log_rank
            /\ core'[l].log_rank = cfg[l].log_rank]_vars

\* The reconfigure call changes the file path and nothing else.
OnlyFilePath(a) ==
    /\ a.new_file_path # <<>>
    /\ a.use_rank = "None" /\ a.rank = None /\ a.world_size = None
    /\ a.log_rank = None /\ a.level = None

(* C12: reconfigure that changes only the file path emits the pending
   fragment (if any) through the core while the core still has the old file,
   then gives the core the new file; every line handed to the core afterwards
   goes to the file the core was last given, never to an earlier one. *)
C12_ReconfigureFlushesToOldFile ==
    [][/\ \A i \in (Len(calls) + 1)..Len(calls') :
             calls'[i].file = core[calls'[i].l].file_path
       /\ \A l \in Loggers :
             (last'.op = "reconfigure" /\ last'.l = l /\ OnlyFilePath(last'.a)) =>
                 /\ core'[l].file_path = abspath(last'.a.new_file_path)
                 /\ buffer'[l] = <<>>
                 /\ IF buffer[l] # <<>>
                    THEN /\ Len(calls') = Len(calls) + 1
                         /\ calls'[Len(calls')].message = buffer[l]
                         /\ calls'[Len(calls')].file = core[l].file_path
                    ELSE calls' = calls]_vars

\* reconfigure has just moved the Logger from old.log to new.log, and the
\* fragment "a" that was pending went to old.log.
C12_Witness ==
    /\ last.op = "reconfigure" /\ OnlyFilePath(last.a)
    /\ Len(calls) = 1
    /\ calls[1].src = "flush" /\ calls[1].message = <<"a">>
    /\ calls[1].file = <<"/", "cwd", "old.log">>
    /\ core[1].file_path = <<"/", "cwd", "new.log">>
    /\ buffer[1] = <<>>

PerLevel == {"debug", "info", "warning", "error", "critical"}

\* The severity a per-level method stands for.
Severity(op) ==
    CASE op = "debug" -> DEBUG
      [] op = "info" -> INFO
      [] op = "warning" -> WARNING
      [] op = "error" -> ERROR
      [] op = "critical" -> CRITICAL

(* C13: a call of debug / info / warning / error / critical produces output
   iff the severity of the method is not below the Logger's severity
   threshold (NOTSET: no threshold); with threshold WARNING, debug and info
   produce nothing and warning, error and critical do. *)
C13_ThresholdFiltersPerLevelCalls ==
    [][\A l \in Loggers :
        (last'.op \in PerLevel /\ last'.l = l) =>
            /\ Len(calls') = Len(calls) + 1
            /\ calls'[Len(calls')].emitted <=>
                  (cfg[l].level = NOTSET \/ Severity(last'.op) >= cfg[l].level)
            /\ cfg[l].level = WARNING =>
                  (calls'[Len(calls')].emitted <=>
                      last'.op \in {"warning", "error", "critical"})]_vars

\* With threshold WARNING, an info call has just produced nothing.
C13_Witness ==
    /\ last.op = "info"
    /\ cfg[1].level = WARNING
    /\ calls # <<>>
    /\ calls[Len(calls)].level = INFO
    /\ ~calls[Len(calls)].emitted

\* str(p1) + sep + ... + sep + str(pn) + end, for at most two parts.
Joined(parts, sep, end) ==
    IF Len(parts) = 0 THEN end
    ELSE IF Len(parts) = 1 THEN py_str(parts[1]) \o end
    ELSE py_str(parts[1]) \o sep \o py_str(parts[2]) \o end

(* C14: a call of debug / info / warning / error / critical with parts
   p1..pn, sep and end makes exactly one call of the core's log, with message
   str(p1)+sep+...+sep+str(pn)+end and the severity of the method as level. *)
C14_PerLevelCallIsOneJoinedMessage ==
    [][\A l \in Loggers :
        (last'.op \in PerLevel /\ last'.l = l) =>
            /\ Len(calls') = Len(calls) + 1
            /\ SubSeq(calls', 1, Len(calls)) = calls
            /\ calls'[Len(calls')].l = l
            /\ calls'[Len(calls')].message = Joined(last'.parts, last'.sep, last'.end)
            /\ calls'[Len(calls')].level = Severity(last'.op)]_vars

\* info("a", "b", sep="-", end=".") has just handed "a-b." to the core at INFO.
C14_Witness ==
    /\ last.op = "info"
    /\ last.parts = <<Str(<<"a">>), Str(<<"b">>)>>
    /\ last.sep = <<"-">> /\ last.end = <<".">>
    /\ calls # <<>>
    /\ calls[Len(calls)].message = <<"a", "-", "b", ".">>
    /\ calls[Len(calls)].level = INFO

(* C15: log and the per-level methods bypass the line buffer: the buffer is
   the same after the call as before, and the one message of the call is all
   that is handed to the core (a pending fragment is not emitted). *)
C15_LogBypassesBuffer ==
    [][\A l \in Loggers :
        (last'.op \in PerLevel \cup {"log"} /\ last'.l = l) =>
            /\ buffer' = buffer
            /\ Len(calls') = Len(calls) + 1
            /\ SubSeq(calls', 1, Len(calls)) = calls
            /\ calls'[Len(calls')].src = "log"]_vars

\* A warning call was made while the fragment "a" was pending: the fragment
\* is still in the buffer and was not handed to the core.
C15_Witness ==
    /\ last.op = "warning"
    /\ buffer[1] = <<"a">>
    /\ written[1] = <<"a">>
    /\ Len(calls) = 1
    /\ calls[1].src = "log"

\* The callable attributes in the sense of the specification, and their
\* wrapped versions (a class: the class with its own callables wrapped).
SpecCallable(v) == v.kind \in {"function", "class", "staticmethod", "callable_object"}

RECURSIVE WrappedVersion(_)
WrappedVersion(v) ==
    IF v.kind = "class"
    THEN [v EXCEPT !.attrs = [i \in 1..Len(v.attrs) |->
                                IF SpecCallable(v.attrs[i])
                                THEN WrappedVersion(v.attrs[i]) ELSE v.attrs[i]]]
    ELSE Wrapper(v)

(* C16: the decorator applied to a class succeeds and returns the class with
   every directly declared callable attribute (function, nested class,
   staticmethod object, other callable object) replaced by its wrapped
   version, the inherited and the non-callable attributes unchanged. *)
C16_ClassDecorationWrapsCallables ==
    (declared.kind = "class" /\ returned.raised # "pending") =>
        /\ returned.raised = "none"
        /\ returned.value = obj
        /\ obj = WrappedVersion(declared)

(* C17: the decorator applied to an object that is neither a class nor a
   function nor a method raises ValueError; applied to a function or a method
   it does not raise and returns the wrapper. *)
C17_DecoratorAcceptsFunctionsOnly ==
    returned.raised # "pending" =>
        /\ declared.kind \notin {"class", "function", "method"} =>
              returned.raised = "ValueError"
        /\ declared.kind \in {"function", "method"} =>
              (returned.raised = "none" /\ returned.value = Wrapper(declared))

\* The decorator has been applied to a callable object that is no function.
C17_Witness ==
    /\ declared = Obj("callable_object")
    /\ returned.raised = "ValueError"

(* C18: write never raises, whatever the message and the state; a write of
   the empty string into an empty buffer emits nothing and leaves the buffer
   empty.  (print reaches write through sys.stdout.) *)
C18_WriteNeverRaises ==
    last.op \in {"write", "print"} => raised = "none"

(* C19: reconfigure flushes first and applies the new settings afterwards:
   the fragment pending when reconfigure is called is handed to the core with
   the use_rank the Logger had before the call. *)
C19_ReconfigureFlushesWithOldUseRank ==
    [][\A l \in Loggers :
        (last'.op = "reconfigure" /\ last'.l = l /\ buffer[l] # <<>>) =>
            /\ Len(calls') = Len(calls) + 1
            /\ calls'[Len(calls')].message = buffer[l]
            /\ calls'[Len(calls')].use_rank = cfg[l].use_rank]_vars

(* C20: close() and the destruction of a Logger leave sys.stdout alone when
   sys.stdout is not that Logger. *)
C20_CloseLeavesForeignCapture ==
    [][(last'.op \in {"close", "del"} /\ sys_stdout # last'.l) =>
          sys_stdout' = sys_stdout]_vars

(* C21: the last reset_print wins.  After a reset_print by Logger L (called
   directly, or by the exit of a wrapped call on L), sys.stdout is what it
   was when L was constructed, whichever Logger redirected last and whatever
   sys.stdout was when L redirected. *)
C21_LastResetPrintWins ==
    [][last'.op \in {"reset_print", "wrapper_exit"} =>
          sys_stdout' = args[last'.l].stdout_at_init]_vars

\* Logger 2 was constructed while Logger 1 captured; its reset_print has just
\* made Logger 1 the target again, although Logger 1 had reset before.
C21_Witness ==
    /\ last.op = "reset_print" /\ last.l = 2
    /\ args[2].stdout_at_init = 1
    /\ original_stdout[1] = Console
    /\ sys_stdout = 1

(* C22: reconfigure called without a mode argument keeps the write mode: the
   mode recorded and handed to the core is the one the Logger had. *)
C22_ReconfigureKeepsMode ==
    [][\A l \in Loggers :
        (last'.op = "reconfigure" /\ last'.l = l /\ last'.a.mode = NotPassed) =>
            /\ cfg'[l].mode = cfg[l].mode
            /\ core'[l].mode = cfg[l].mode]_vars

(* C25: reconfigure with an invalid write mode raises ValueError before any
   file is touched: the failing call hands nothing to the core's log (also
   with a fragment pending) and leaves the recorded configuration as it was. *)
C25_InvalidModeFailsUntouched ==
    [][\A l \in Loggers :
        (last'.op = "reconfigure" /\ last'.l = l
            /\ last'.a.mode \notin {NotPassed, "", "a", "w"}) =>
            /\ raised' = "ValueError"
            /\ calls' = calls
            /\ buffer' = buffer
            /\ cfg' = cfg
            /\ core' = core]_vars

(* C23: no buffered message is lost at teardown.  close() and the
   destruction of a Logger hand a pending fragment to the core's log exactly
   once, while the core is still open; they make no call of the core's log
   after the core's close, and leave the buffer empty. *)
C23_TeardownFlushesBeforeClose ==
    [][\A l \in Loggers :
        (last'.op \in {"close", "del"} /\ last'.l = l) =>
            /\ buffer'[l] = <<>>
            /\ \A i \in (Len(calls) + 1)..Len(calls') : calls'[i].core_open
            /\ IF buffer[l] # <<>>
               THEN /\ Len(calls') = Len(calls) + 1
                    /\ SubSeq(calls', 1, Len(calls)) = calls
                    /\ calls'[Len(calls')].l = l
                    /\ calls'[Len(calls')].message = buffer[l]
               ELSE calls' = calls]_vars

\* A Logger has been destroyed after "a" was left pending in its buffer: the
\* fragment went to the core exactly once, while the core was open.
C23_Witness ==
    /\ last.op = "del"
    /\ state[1] = "none"
    /\ written[1] = <<"a">>
    /\ Len(calls) = 1
    /\ calls[1].src = "flush" /\ calls[1].message = <<"a">>
    /\ calls[1].core_open
    /\ buffer[1] = <<>>

(* C24: reconfigure takes an explicit False or zero for "leave unchanged":
   a use_rank that is True stays True after any reconfigure call, and
   reconfigure(rank=0) or reconfigure(world_size=0) leaves the previous rank
   or world_size recorded and handed to the core. *)
C24_FalsyArgumentsLeaveUnchanged ==
    [][\A l \in Loggers :
        (last'.op = "reconfigure" /\ last'.l = l) =>
            /\ cfg[l].use_rank => (cfg'[l].use_rank /\ core'[l].use_rank)
            /\ last'.a.rank = 0 =>
                  (cfg'[l].rank = cfg[l].rank /\ core'[l].rank = cfg[l].rank)
            /\ last'.a.world_size = 0 =>
                  (cfg'[l].world_size = cfg[l].world_size
                      /\ core'[l].world_size = cfg[l].world_size)]_vars

\* reconfigure(use_rank=False, rank=0, world_size=0) has just been called on
\* a Logger made with use_rank=True, rank=1, world_size=2, which it still has.
C24_Witness ==
    /\ last.op = "reconfigure"
    /\ last.a.use_rank = "False" /\ last.a.rank = 0 /\ last.a.world_size = 0
    /\ args[1].use_rank /\ args[1].rank = 1 /\ args[1].world_size = 2
    /\ cfg[1].use_rank /\ cfg[1].rank = 1 /\ cfg[1].world_size = 2
    /\ core[1].use_rank /\ core[1].rank = 1 /\ core[1].world_size = 2

(* C26: messages at level NOTSET are raw passthrough: on a Logger with a
   severity threshold, the lines write hands over at its default level and
   the fragments flush emits produce output. *)
C26_NotsetPassesThreshold ==
    \A i \in 1..Len(calls) :
        (calls[i].src \in {"write", "flush"} /\ calls[i].level = NOTSET) =>
            calls[i].emitted

\* The text Logger l has handed to the core's log from write and flush: the
\* messages of the first n calls that are such, in order, end to end.
RECURSIVE HandedText(_, _)
HandedText(l, n) ==
    IF n = 0 THEN <<>>
    ELSE IF calls[n].l = l /\ calls[n].src \in {"write", "flush"}
    THEN HandedText(l, n - 1) \o calls[n].message
    ELSE HandedText(l, n - 1)

(* C27: conservation of written text.  All that write and flush have handed
   to the core's log, end to end, followed by the buffer, is the text given
   to write so far: no character lost, duplicated or reordered. *)
C27_WrittenTextConserved ==
    \A l \in Constructed : HandedText(l, Len(calls)) \o buffer[l] = written[l]

\* "a\na" was written and flushed: the line went out with the write, the
\* fragment with the flush.
C27_Witness ==
    /\ written[1] = <<"a", "\n", "a">>
    /\ buffer[1] = <<>>
    /\ Len(calls) = 2
    /\ calls[1].src = "write" /\ calls[1].message = <<"a", "\n">>
    /\ calls[2].src = "flush" /\ calls[2].message = <<"a">>

====
